---------------------------- MODULE Spec2Model ----------------------------
(***************************************************************************)
(* Eufy RoboVac vacuum entity (custom_components/robovac/vacuum.py).       *)
(*                                                                         *)
(* The model follows RoboVacEntity: the capability branches of __init__,   *)
(* the `state` property, async_update (the poll) and the command handlers. *)
(* Handlers are coroutines on one event loop: the code between two awaits  *)
(* runs as one step, and other tasks may run at every await.               *)
(*                                                                         *)
(* Values of data points are written as strings: None for Python's None    *)
(* (dict.get of an absent code), "True"/"False" for booleans, decimal      *)
(* numerals ("0", "5") for integers, anything else for a str.  No str of   *)
(* the model is spelled like a numeral or a boolean.                       *)
(*                                                                         *)
(* vacuum.py names timedelta (line 92) and RoboVac (line 381) without      *)
(* defining them; the model takes the module as loaded and the entity as   *)
(* constructed, with self.vacuum the transport object.                     *)
(***************************************************************************)
EXTENDS Integers, Sequences, FiniteSets, TLC

VARIABLES
    self,       \* the RoboVacEntity's attributes
    status,     \* what reading self.status yields (never assigned by vacuum.py)
    dev,        \* the device's data points (code -> value)
    vacState,   \* self.vacuum.state: the transport's last fetched snapshot
    pc,         \* position of each task's coroutine
    cmd,        \* the command each task runs
    entry,      \* the entity's view when the task's handler was entered
    todo,       \* writes the handler has still to await, in order
    log,        \* the transport calls the handler has completed, in order
    started     \* number of commands started so far

vars == <<self, status, dev, vacState, pc, cmd, entry, todo, log, started>>

None == "None"

---------------------------------------------------------------------------
(* Bounds *)

\* Most codes one reported snapshot carries (SpecPoll, SpecResolve).
MaxPresent == 2
\* Command tasks that may run concurrently beside the scheduled poll.
MaxTasks == 2
\* Commands started in one behaviour.
MaxCommands == 2

---------------------------------------------------------------------------
(* TUYA_CODES and the other data-point codes the handlers use *)

BATTERY_LEVEL == "104"
STATE_CODE == "15"
ERROR_CODE == "106"
MODE == "5"
FAN_SPEED == "102"
CLEANING_AREA == "110"
CLEANING_TIME == "109"
AUTO_RETURN == "135"
DO_NOT_DISTURB == "107"
BOOST_IQ == "118"
G_CONSUMABLES == "142"
X_CONSUMABLES == "116"

\* Codes async_update reads.
ReadCodes ==
    {BATTERY_LEVEL, STATE_CODE, ERROR_CODE, MODE, FAN_SPEED, CLEANING_AREA,
     CLEANING_TIME, AUTO_RETURN, DO_NOT_DISTURB, BOOST_IQ, G_CONSUMABLES,
     X_CONSUMABLES}

\* Codes only written (or, for "103", read from tuyastatus) by the commands.
WriteOnlyCodes == {"103", "101", "2", "139", "124"}

Codes == ReadCodes \cup WriteOnlyCodes

STATE_CLEANING == "cleaning"
STATE_DOCKED == "docked"
STATE_ERROR == "error"
STATE_IDLE == "idle"
STATE_RETURNING == "returning"

---------------------------------------------------------------------------
(* Python helpers *)

PyNumerals == {"0", "5", "9", "12", "30", "80"}

\* type(v): a type object, which is never the object None.
PyType(v) ==
    IF v = None THEN "<class 'NoneType'>"
    ELSE IF v \in {"True", "False"} THEN "<class 'bool'>"
    ELSE IF v \in PyNumerals THEN "<class 'int'>"
    ELSE "<class 'str'>"

\* bool(v), as `if self.auto_return:` evaluates it.
Truthy(v) == v \notin {None, "False", "0", ""}

\* d.get(code) on a snapshot: the value, or None when the code is absent.
Get(d, code) == IF code \in DOMAIN d THEN d[code] ELSE None

EmptySnapshot == [c \in Codes |-> None]

---------------------------------------------------------------------------
(* RoboVacEntity.__init__: capability branches *)

\* A faulty Prefix5, the slice one character too long ([0:6]); C10 must
\* reject it.
Prefix5_SixChars(model_code) ==
    SubSeq(model_code, 1, IF Len(model_code) < 6 THEN Len(model_code) ELSE 6)

\* Model identifiers are sequences of characters; model_code[0:5].
Prefix5(model_code) ==
    SubSeq(model_code, 1, IF Len(model_code) < 5 THEN Len(model_code) ELSE 5)

C_SERIES ==
    << <<"T","2","1","0","3">>, <<"T","2","1","1","7">>, <<"T","2","1","1","8">>,
       <<"T","2","1","1","9">>, <<"T","2","1","2","0">>, <<"T","2","1","2","3">>,
       <<"T","2","1","2","8">>, <<"T","2","1","3","0">> >>

G_SERIES ==
    << <<"T","1","2","5","0">>, <<"T","2","2","5","0">>, <<"T","2","2","5","1">>,
       <<"T","2","2","5","2">>, <<"T","2","2","5","3">>, <<"T","2","1","5","0">>,
       <<"T","2","2","5","5">> >>

X_SERIES ==
    << <<"T","2","2","6","2">>, <<"T","2","2","6","2","A">>,
       <<"T","2","2","6","1">>, <<"T","2","2","6","1","A">> >>

\* x in list
InList(x, list) == \E i \in 1..Len(list) : list[i] = x

BaseFeatures ==
    {"BATTERY", "CLEAN_SPOT", "FAN_SPEED", "LOCATE", "PAUSE", "RETURN_HOME",
     "SEND_COMMAND", "START", "STATE", "STOP"}

\* The attributes the if/elif chain of __init__ sets, as sets of flags.
ResolveProfile(model_code) ==
    IF InList(Prefix5(model_code), C_SERIES) THEN
        [fan_speed_list |-> <<"No Suction", "Standard", "Boost IQ", "Max">>,
         robovac_supported |-> {"EDGE", "SMALL_ROOM"},
         supported_features |-> BaseFeatures]
    ELSE IF InList(Prefix5(model_code), G_SERIES) THEN
        [fan_speed_list |-> <<"Standard", "Turbo", "Max", "Boost IQ">>,
         robovac_supported |->
            {"CLEANING_TIME", "CLEANING_AREA", "DO_NOT_DISTURB", "AUTO_RETURN",
             "CONSUMABLES"},
         supported_features |-> BaseFeatures]
    ELSE IF InList(Prefix5(model_code), X_SERIES) THEN
        [fan_speed_list |-> <<"Pure", "Standard", "Turbo", "Max">>,
         robovac_supported |->
            {"CLEANING_TIME", "CLEANING_AREA", "DO_NOT_DISTURB", "AUTO_RETURN",
             "CONSUMABLES", "ROOM", "ZONE", "MAP", "BOOST_IQ"},
         supported_features |-> BaseFeatures \cup {"MAP"}]
    ELSE
        [fan_speed_list |-> <<"Standard">>,
         robovac_supported |-> {},
         supported_features |-> {}]

\* The entity as __init__ leaves it.  tuyastatus is None (<<>>) until the
\* first poll stores a snapshot (<<snapshot>>).
NewEntity(model_code, ip_address) ==
    [model_code |-> model_code,
     ip_address |-> ip_address,
     fan_speed_list |-> ResolveProfile(model_code).fan_speed_list,
     robovac_supported |-> ResolveProfile(model_code).robovac_supported,
     supported_features |-> ResolveProfile(model_code).supported_features,
     battery_level |-> "0",
     fan_speed |-> None,
     cleaning_area |-> None,
     cleaning_time |-> None,
     auto_return |-> None,
     do_not_disturb |-> None,
     boost_iq |-> None,
     mode |-> None,
     consumables |-> None,
     error_code |-> None,
     tuya_state |-> None,
     tuyastatus |-> <<>>]

---------------------------------------------------------------------------
(* RoboVacEntity.state *)

State(e) ==
    IF e.tuya_state = None
       \/ (PyType(e.error_code) # None /\ e.error_code \notin {"0", "no_error"})
    THEN STATE_ERROR
    ELSE IF e.tuya_state = "Charging" \/ e.tuya_state = "completed" THEN STATE_DOCKED
    ELSE IF e.tuya_state = "Recharge" THEN STATE_RETURNING
    ELSE IF e.tuya_state = "Sleeping" \/ e.tuya_state = "standby" THEN STATE_IDLE
    ELSE STATE_CLEANING

---------------------------------------------------------------------------
(* Consumables blobs: base64 text of ASCII bytes of a Python literal.      *)
(* Each stage is given on the blobs of the model (values computed with the *)
(* Python functions the code calls).                                       *)

BLOB_DURATION_5 == "eydjb25zdW1hYmxlJzp7J2R1cmF0aW9uJzo1fX0="
BLOB_DURATION_9 == "eydjb25zdW1hYmxlJzp7J2R1cmF0aW9uJzo5fX0="
BLOB_TRUNCATED == "eydjb25zdW1hYmxlJzp7J2R1cmF0aW9uJzo1f"
BLOB_NON_ASCII == "//57J2EnOjF9"
BLOB_BAD_LITERAL == "eydjb25zdW1hYmxlJzo="
BLOB_NO_KEY == "eydvdGhlcic6MX0="

Ok(v) == [ok |-> TRUE, v |-> v]
Raise(exc) == [ok |-> FALSE, v |-> exc]

\* base64.b64decode
B64Decode(blob) ==
    CASE blob = BLOB_DURATION_5 -> Ok("{'consumable':{'duration':5}}")
      [] blob = BLOB_DURATION_9 -> Ok("{'consumable':{'duration':9}}")
      [] blob = BLOB_NON_ASCII -> Ok("\\xff\\xfe{'a':1}")
      [] blob = BLOB_BAD_LITERAL -> Ok("{'consumable':")
      [] blob = BLOB_NO_KEY -> Ok("{'other':1}")
      [] OTHER -> Raise("binascii.Error")

\* bytes.decode("ascii")
AsciiDecode(bytes) ==
    IF bytes = "\\xff\\xfe{'a':1}" THEN Raise("UnicodeDecodeError") ELSE Ok(bytes)

\* ast.literal_eval(text)["consumable"]["duration"]
LiteralDuration(text) ==
    CASE text = "{'consumable':{'duration':5}}" -> Ok("5")
      [] text = "{'consumable':{'duration':9}}" -> Ok("9")
      [] text = "{'other':1}" -> Raise("KeyError")
      [] OTHER -> Raise("SyntaxError")

\* ast.literal_eval(base64.b64decode(blob).decode("ascii"))["consumable"]["duration"]
DecodeConsumables(blob) ==
    LET b == B64Decode(blob) IN
    IF ~b.ok THEN b
    ELSE LET a == AsciiDecode(b.v) IN
         IF ~a.ok THEN a ELSE LiteralDuration(a.v)

---------------------------------------------------------------------------
(* RoboVacEntity.async_update, after `await self.vacuum.async_get()` *)

\* A faulty FanSpeedRead, the "Quiet" alias left out; C9 must reject it.
FanSpeedRead_NoQuiet(token) ==
    IF token = "No_suction" THEN "No Suction"
    ELSE IF token = "Boost_IQ" THEN "Boost IQ"
    ELSE token

\* Fan-speed tokens as the poll rewrites them.
FanSpeedRead(token) ==
    IF token = "No_suction" THEN "No Suction"
    ELSE IF token = "Boost_IQ" THEN "Boost IQ"
    ELSE IF token = "Quiet" THEN "Pure"
    ELSE token

\* Lines 402-420: the assignments before the first consumables decode.
UpdateHead(e, s) ==
    [e EXCEPT !.tuyastatus = <<s>>,
              !.battery_level = Get(s, BATTERY_LEVEL),
              !.tuya_state = Get(s, STATE_CODE),
              !.error_code = Get(s, ERROR_CODE),
              !.mode = Get(s, MODE),
              !.fan_speed = FanSpeedRead(Get(s, FAN_SPEED)),
              !.cleaning_area = Get(s, CLEANING_AREA),
              !.cleaning_time = Get(s, CLEANING_TIME),
              !.auto_return = Get(s, AUTO_RETURN),
              !.do_not_disturb = Get(s, DO_NOT_DISTURB)]

\* Lines 421-434: the two guarded decodes with boost_iq between them.  An
\* exception leaves the later assignments undone and reaches the caller.
UpdateTail(e, s) ==
    LET g == DecodeConsumables(Get(s, G_CONSUMABLES))
        x == DecodeConsumables(Get(s, X_CONSUMABLES))
        e1 == IF Get(s, G_CONSUMABLES) # None
              THEN [e EXCEPT !.consumables = g.v] ELSE e
        e2 == [e1 EXCEPT !.boost_iq = Get(s, BOOST_IQ)]
        e3 == IF Get(s, X_CONSUMABLES) # None
              THEN [e2 EXCEPT !.consumables = x.v] ELSE e2
    IN  IF Get(s, G_CONSUMABLES) # None /\ ~g.ok THEN [entity |-> e, raised |-> g.v]
        ELSE IF Get(s, X_CONSUMABLES) # None /\ ~x.ok THEN [entity |-> e2, raised |-> x.v]
        ELSE [entity |-> e3, raised |-> None]

\* The poll's effect on the entity for fetched snapshot s, and what it raises.
Update(e, s) == UpdateTail(UpdateHead(e, s), s)

---------------------------------------------------------------------------
(* Command handlers: what each does up to its first await, and the awaits  *)
(* that follow.  A write is <<code, value>>.                               *)

\* async_set_fan_speed: the label as written to code 102.
FanSpeedWrite(fan_speed) ==
    IF fan_speed = "No Suction" THEN "No_suction"
    ELSE IF fan_speed = "Boost IQ" THEN "Boost_IQ"
    ELSE IF fan_speed = "Pure" THEN "Quiet"
    ELSE fan_speed

\* What a handler does before its first await: the mode it leaves in
\* self._attr_mode, the writes it goes on to make (one awaited async_set
\* each), and what it raises (None: nothing).
Plan(mode, writes) == [mode |-> mode, writes |-> writes, raised |-> None]

Raises(mode, exc) == [mode |-> mode, writes |-> <<>>, raised |-> exc]

\* async_locate: no sleep, no update.
Locate(e) ==
    IF e.tuyastatus = <<>> THEN Raises(e.mode, "AttributeError")
    ELSE IF Truthy(Get(e.tuyastatus[1], "103"))
         THEN Plan(e.mode, << <<"103", "False">> >>)
         ELSE Plan(e.mode, << <<"103", "True">> >>)

\* async_return_to_base (and async_stop, which awaits it).
ReturnToBase(e) == Plan(e.mode, << <<"101", "True">> >>)

\* async_start: `self.async_update` is named, not called.  self.status is
\* read only when the mode is "room".
Start(e, st) ==
    IF e.mode = "Nosweep" THEN Plan("auto", << <<"5", "auto">> >>)
    ELSE IF e.mode = "room" /\ st = "AttributeError"
         THEN Raises(e.mode, "AttributeError")
    ELSE IF e.mode = "room" /\ (st = "Charging" \/ st = "completed")
         THEN Plan("auto", << <<"5", "auto">> >>)
    ELSE Plan(e.mode, << <<"5", e.mode>> >>)

\* async_pause: `self.async_update` is named, not called.
Pause(e) == Plan(e.mode, << <<"2", "False">> >>)

\* async_clean_spot
CleanSpot(e) == Plan(e.mode, << <<"5", "Spot">> >>)

\* async_set_fan_speed
SetFanSpeed(e, fan_speed) ==
    Plan(e.mode, << <<"102", FanSpeedWrite(fan_speed)>> >>)

\* The room-clean request: base64 of the JSON call, whose timestamp is the
\* clock's; the model keeps one value for it.
ROOM_CLEAN_BLOB == "eyJtZXRob2QiOiJzZWxlY3RSb29tc0NsZWFuIiwuLi59"

DND_OFF_BLOB == "MEQ4MDAwMDAw"
DND_ON_BLOB == "MTAwMDAwMDAw"

\* A faulty DoNotDisturbWrites, the enable flag written before the blob;
\* C4 must reject it.
DoNotDisturbWrites_FlagFirst(e) ==
    IF Truthy(e.do_not_disturb)
    THEN << <<"107", "False">>, <<"139", DND_OFF_BLOB>> >>
    ELSE << <<"107", "True">>, <<"139", DND_ON_BLOB>> >>

\* The two async_set calls of the doNotDisturb branch.
DoNotDisturbWrites(e) ==
    IF Truthy(e.do_not_disturb)
    THEN << <<"139", DND_OFF_BLOB>>, <<"107", "False">> >>
    ELSE << <<"139", DND_ON_BLOB>>, <<"107", "True">> >>

\* A faulty AutoReturnWrites, the flag written back as it is read; C11 must
\* reject it.
AutoReturnWrites_NotNegated(e) ==
    IF Truthy(e.auto_return)
    THEN << <<"135", "True">> >>
    ELSE << <<"135", "False">> >>

\* The async_set call of the autoReturn branch.
AutoReturnWrites(e) ==
    IF Truthy(e.auto_return)
    THEN << <<"135", "False">> >>
    ELSE << <<"135", "True">> >>

\* The async_set call of the boostIQ branch.
BoostIQWrites(e) ==
    IF Truthy(e.boost_iq)
    THEN << <<"118", "False">> >>
    ELSE << <<"118", "True">> >>

\* async_send_command: an unmatched command name falls through to the
\* sleep and the update.
SendCommand(e, command, params) ==
    IF command = "edgeClean" THEN Plan(e.mode, << <<"5", "Edge">> >>)
    ELSE IF command = "smallRoomClean"
         THEN Plan(e.mode, << <<"5", "SmallRoom">> >>)
    ELSE IF command = "autoClean" THEN Plan(e.mode, << <<"5", "auto">> >>)
    ELSE IF command = "autoReturn" THEN Plan(e.mode, AutoReturnWrites(e))
    ELSE IF command = "doNotDisturb"
         THEN Plan(e.mode, DoNotDisturbWrites(e))
    ELSE IF command = "boostIQ" THEN Plan(e.mode, BoostIQWrites(e))
    ELSE IF command = "roomClean" THEN
        IF params = None THEN Raises(e.mode, "AttributeError")
        ELSE Plan(e.mode, << <<"124", ROOM_CLEAN_BLOB>> >>)
    ELSE Plan(e.mode, <<>>)

\* A command is [name, arg, params]; the scheduled poll is the host calling
\* async_update itself.
Command(name, arg, params) == [name |-> name, arg |-> arg, params |-> params]

ScheduledPoll == Command("async_update", None, None)

Handler(c, e, st) ==
    CASE c.name = "async_locate" -> Locate(e)
      [] c.name = "async_return_to_base" -> ReturnToBase(e)
      [] c.name = "async_start" -> Start(e, st)
      [] c.name = "async_pause" -> Pause(e)
      [] c.name = "async_stop" -> ReturnToBase(e)
      [] c.name = "async_clean_spot" -> CleanSpot(e)
      [] c.name = "async_set_fan_speed" -> SetFanSpeed(e, c.arg)
      [] c.name = "async_send_command" -> SendCommand(e, c.arg, c.params)
      [] OTHER -> Plan(e.mode, <<>>)

---------------------------------------------------------------------------
(* Tasks.  Task 0 is the host's scheduled poll; tasks 1..MaxTasks run the  *)
(* service calls.  pc: "idle" (nothing run yet), "set" (awaiting            *)
(* vacuum.async_set), "sleep" (awaiting asyncio.sleep), "get" (awaiting     *)
(* vacuum.async_get, not yet fetched), "got" (fetched, not yet resumed),    *)
(* "done" (returned), "raised" (an exception left the handler).             *)

Poller == 0
CmdTasks == 1..MaxTasks
Tasks == {Poller} \cup CmdTasks

Finished(t) == pc[t] \in {"idle", "done", "raised"}

\* The view of the entity a command handler starts from.
EntryView(e) ==
    [mode |-> e.mode, state |-> State(e), auto_return |-> e.auto_return,
     do_not_disturb |-> e.do_not_disturb, boost_iq |-> e.boost_iq]

\* Whether the handler awaits asyncio.sleep(1) after its writes.
Sleeps(c) == c.name \notin {"async_update", "async_locate"}

\* A faulty Updates, async_send_command ending as async_start does, with
\* the update named and not called; C12 must reject it.
Updates_NotAfterSendCommand(c) ==
    c.name \notin {"async_locate", "async_start", "async_pause",
                   "async_send_command"}

\* Whether the handler then awaits self.async_update().  async_start and
\* async_pause end with the expression `self.async_update`, which calls
\* nothing.
Updates(c) == c.name \notin {"async_locate", "async_start", "async_pause"}

\* A faulty EnterUpdate, the test of the address left out; C14 must reject
\* it.
EnterUpdate_NoAddressTest(c, e) == IF Updates(c) THEN "get" ELSE "done"

\* async_update up to its await: it returns at once for an empty address.
EnterUpdate(c, e) ==
    IF Updates(c) /\ e.ip_address # "" THEN "get" ELSE "done"

\* Where a handler goes once its writes are done (or it has none).
AfterWrites(c, e) == IF Sleeps(c) THEN "sleep" ELSE EnterUpdate(c, e)

\* A handler is entered and runs to its first await.  A service call takes
\* the first task that runs nothing (the tasks are interchangeable).
Begin(t, c) ==
    /\ Finished(t)
    /\ IF t = Poller THEN c = ScheduledPoll /\ UNCHANGED started
       ELSE /\ c # ScheduledPoll
            /\ \A u \in CmdTasks : u < t => ~Finished(u)
            /\ started < MaxCommands
            /\ started' = started + 1
    /\ LET p == Handler(c, self, status) IN
        /\ self' = [self EXCEPT !.mode = p.mode]
        /\ cmd' = [cmd EXCEPT ![t] = c]
        /\ entry' = [entry EXCEPT ![t] = IF t = Poller THEN @ ELSE EntryView(self)]
        /\ log' = [log EXCEPT ![t] = <<>>]
        /\ todo' = [todo EXCEPT ![t] = p.writes]
        /\ pc' = [pc EXCEPT ![t] =
                    IF p.raised # None THEN "raised"
                    ELSE IF p.writes # <<>> THEN "set"
                    ELSE AfterWrites(c, self)]
    /\ UNCHANGED <<status, dev, vacState>>

\* vacuum.async_set: the device takes the write; the handler resumes and
\* reaches its next await.
ApplyWrite(t) ==
    /\ pc[t] = "set"
    /\ LET w == Head(todo[t]) IN
          /\ dev' = [dev EXCEPT ![w[1]] = w[2]]
          /\ log' = [log EXCEPT ![t] = Append(@, <<"set", w[1], w[2]>>)]
          /\ todo' = [todo EXCEPT ![t] = Tail(@)]
          /\ pc' = [pc EXCEPT ![t] =
                      IF Tail(todo[t]) # <<>> THEN "set"
                      ELSE AfterWrites(cmd[t], self)]
    /\ UNCHANGED <<self, status, vacState, cmd, entry, started>>


\* asyncio.sleep(1) ends; the handler goes on to its update, if it has one.
Wake(t) ==
    /\ pc[t] = "sleep"
    /\ pc' = [pc EXCEPT ![t] = EnterUpdate(cmd[t], self)]
    /\ UNCHANGED <<self, status, dev, vacState, cmd, entry, todo, log, started>>

\* vacuum.async_get: the transport reads the device into vacuum.state.
Fetch(t) ==
    /\ pc[t] = "get"
    /\ vacState' = dev
    /\ log' = [log EXCEPT ![t] = Append(@, <<"get", "", "">>)]
    /\ pc' = [pc EXCEPT ![t] = "got"]
    /\ UNCHANGED <<self, status, dev, cmd, entry, todo, started>>

\* async_update resumes after the await and runs to its end.
Resume(t) ==
    /\ pc[t] = "got"
    /\ LET u == Update(self, vacState) IN
          /\ self' = u.entity
          /\ pc' = [pc EXCEPT ![t] = IF u.raised # None THEN "raised" ELSE "done"]
    /\ UNCHANGED <<status, dev, vacState, cmd, entry, todo, log, started>>

\* The device reports snapshot s and a scheduled poll runs from its call to
\* its return with no other task in between.
PollSnapshot(s) ==
    /\ Finished(Poller)
    /\ dev' = s
    /\ IF self.ip_address = ""
       THEN /\ log' = [log EXCEPT ![Poller] = <<>>]
            /\ pc' = [pc EXCEPT ![Poller] = "done"]
            /\ UNCHANGED <<self, vacState>>
       ELSE LET u == Update(self, s) IN
            /\ vacState' = s
            /\ log' = [log EXCEPT ![Poller] = << <<"get", "", "">> >>]
            /\ self' = u.entity
            /\ pc' = [pc EXCEPT ![Poller] =
                        IF u.raised # None THEN "raised" ELSE "done"]
    /\ UNCHANGED <<status, cmd, entry, todo, started>>

---------------------------------------------------------------------------
(* Inputs *)

\* Values the device may report for each code async_update reads.
ValuesOf(code) ==
    CASE code = BATTERY_LEVEL -> {"80"}
      [] code = STATE_CODE ->
            {"Charging", "completed", "Recharge", "Sleeping", "standby", "Running"}
      [] code = ERROR_CODE -> {"0", "no_error", "5"}
      [] code = MODE -> {"auto", "room", "Nosweep"}
      [] code = FAN_SPEED -> {"No_suction", "Boost_IQ", "Quiet", "Standard"}
      [] code = CLEANING_AREA -> {"12"}
      [] code = CLEANING_TIME -> {"30"}
      [] code \in {AUTO_RETURN, DO_NOT_DISTURB, BOOST_IQ} -> {"True", "False"}
      [] code = G_CONSUMABLES -> {BLOB_DURATION_5, BLOB_TRUNCATED, BLOB_NO_KEY}
      [] code = X_CONSUMABLES ->
            {BLOB_DURATION_9, BLOB_TRUNCATED, BLOB_NON_ASCII, BLOB_BAD_LITERAL}
      [] OTHER -> {}

\* Snapshots that report at most n of the given codes.
RECURSIVE SnapshotsOver(_, _)
SnapshotsOver(codes, n) ==
    IF n = 0 THEN {EmptySnapshot}
    ELSE LET S == SnapshotsOver(codes, n - 1) IN
         S \cup {[s EXCEPT ![c] = v] : <<s, c, v>> \in
                   {x \in S \X codes \X UNION {ValuesOf(c) : c \in codes} :
                       x[3] \in ValuesOf(x[2]) /\ x[1][x[2]] = None}}

Snapshots == SnapshotsOver(ReadCodes, MaxPresent)

T2118 == <<"T","2","1","1","8">>
T2250 == <<"T","2","2","5","0">>
T2262 == <<"T","2","2","6","2">>
T9999 == <<"T","9","9","9","9">>

IP_ADDRESS == "192.168.1.20"

TaskInit ==
    /\ pc = [t \in Tasks |-> "idle"]
    /\ cmd = [t \in Tasks |-> ScheduledPoll]
    /\ entry = [t \in Tasks |-> EntryView(self)]
    /\ todo = [t \in Tasks |-> <<>>]
    /\ log = [t \in Tasks |-> <<>>]
    /\ started = 0

---------------------------------------------------------------------------
(* SpecPoll: an X-series entity polled with arbitrary snapshots. *)

InitPoll ==
    /\ self \in {NewEntity(T2262, ip) : ip \in {"", IP_ADDRESS}}
    /\ status = "AttributeError"
    /\ dev = EmptySnapshot
    /\ vacState = EmptySnapshot
    /\ TaskInit

NextPoll == \E s \in Snapshots : PollSnapshot(s)

SpecPoll == InitPoll /\ [][NextPoll]_vars

---------------------------------------------------------------------------
(* Specifications with commands: service calls on tasks 1..MaxTasks beside *)
(* the scheduled poll, over the device the writes reach.                   *)

NextOver(commands) ==
    \E t \in Tasks :
        \/ \E c \in commands \cup {ScheduledPoll} : Begin(t, c)
        \/ ApplyWrite(t)
        \/ Wake(t)
        \/ Fetch(t)
        \/ Resume(t)

\* What reading self.status can yield: vacuum.py never assigns it, and the
\* host's StateVacuumEntity either lacks the attribute or holds None.
StatusOutcomes == {"AttributeError", None}

\* A docked device with do-not-disturb on or off.
DndDevice(on) ==
    [EmptySnapshot EXCEPT ![STATE_CODE] = "Charging", ![ERROR_CODE] = "0",
                          ![MODE] = "auto",
                          !["139"] = IF on THEN DND_ON_BLOB ELSE DND_OFF_BLOB,
                          ![DO_NOT_DISTURB] = IF on THEN "True" ELSE "False"]

SendCommandNames ==
    {"edgeClean", "smallRoomClean", "autoClean", "autoReturn", "doNotDisturb",
     "boostIQ", "roomClean", "unknownCommand"}

AllCommands ==
    {Command(n, None, None) :
        n \in {"async_locate", "async_return_to_base", "async_start",
               "async_pause", "async_stop", "async_clean_spot"}}
    \cup {Command("async_set_fan_speed", "Boost IQ", None)}
    \cup {Command("async_send_command", n, None) : n \in SendCommandNames}
    \cup {Command("async_send_command", "roomClean", "roomIds")}

InitCmd ==
    /\ self \in {NewEntity(m, IP_ADDRESS) : m \in {T2118, T2262, T9999}}
    /\ status = "AttributeError"
    /\ dev \in {DndDevice(on) : on \in BOOLEAN}
    /\ vacState = EmptySnapshot
    /\ TaskInit

NextCmd == NextOver(AllCommands)

SpecCmd == InitCmd /\ [][NextCmd]_vars

---------------------------------------------------------------------------
(* SpecToggle: the three toggle commands of async_send_command. *)

ToggleCommands ==
    {Command("async_send_command", n, None) :
        n \in {"autoReturn", "doNotDisturb", "boostIQ"}}

\* A G/X-series device reporting its three flags; the do-not-disturb
\* schedule agrees with its flag.
ToggleDevice(dnd, flags) ==
    [DndDevice(dnd) EXCEPT ![AUTO_RETURN] = flags, ![BOOST_IQ] = flags]

InitToggle ==
    /\ self = NewEntity(T2262, IP_ADDRESS)
    /\ status = "AttributeError"
    /\ dev \in {ToggleDevice(dnd, flags) :
                   dnd \in BOOLEAN, flags \in {"True", None}}
    /\ vacState = EmptySnapshot
    /\ TaskInit

NextToggle == NextOver(ToggleCommands)

SpecToggle == InitToggle /\ [][NextToggle]_vars

---------------------------------------------------------------------------
(* SpecStart: async_start over the modes and raw states a device reports. *)

StartDevice(mode, state) ==
    [EmptySnapshot EXCEPT ![STATE_CODE] = state, ![ERROR_CODE] = "0",
                          ![MODE] = mode]

InitStart ==
    /\ self = NewEntity(T2262, IP_ADDRESS)
    /\ status \in StatusOutcomes
    /\ dev \in {StartDevice(mode, state) :
                   mode \in {"auto", "room", "Nosweep", None},
                   state \in {"Charging", "completed", "Running", "Sleeping"}}
    /\ vacState = EmptySnapshot
    /\ TaskInit

NextStart ==
    NextOver({Command("async_start", None, None),
              Command("async_clean_spot", None, None)})

SpecStart == InitStart /\ [][NextStart]_vars

---------------------------------------------------------------------------
(* SpecFan: async_set_fan_speed over the labels of every fan_speed_list. *)

RECURSIVE Range(_)
Range(seq) == IF seq = <<>> THEN {} ELSE {Head(seq)} \cup Range(Tail(seq))

FanSpeedLabels ==
    UNION {Range(ResolveProfile(m).fan_speed_list) : m \in {T2118, T2250, T2262, T9999}}

InitFan ==
    /\ self \in {NewEntity(m, IP_ADDRESS) : m \in {T2118, T2262}}
    /\ status = "AttributeError"
    /\ dev = [EmptySnapshot EXCEPT ![STATE_CODE] = "Running", ![FAN_SPEED] = "Standard"]
    /\ vacState = EmptySnapshot
    /\ TaskInit

NextFan ==
    NextOver({Command("async_set_fan_speed", l, None) : l \in FanSpeedLabels})

SpecFan == InitFan /\ [][NextFan]_vars

---------------------------------------------------------------------------
(* SpecResolve: entities of every model identifier, polled. *)

\* The five-character prefixes of the tables, and two of no table.
KnownPrefixes ==
    {p \in Range(C_SERIES) \cup Range(G_SERIES) \cup Range(X_SERIES) : Len(p) = 5}

ModelIds ==
    {p \o suffix :
        p \in KnownPrefixes \cup {T9999, <<"T","2","2","6","3">>},
        suffix \in {<<>>, <<"A">>, <<"B","1">>}}
    \cup {<<>>, <<"T","2">>, <<"T","2","2","6">>}

InitResolve ==
    /\ self \in {NewEntity(m, IP_ADDRESS) : m \in ModelIds}
    /\ status = "AttributeError"
    /\ dev = EmptySnapshot
    /\ vacState = EmptySnapshot
    /\ TaskInit

NextResolve ==
    \E s \in SnapshotsOver({STATE_CODE, ERROR_CODE}, MaxPresent) : PollSnapshot(s)

SpecResolve == InitResolve /\ [][NextResolve]_vars

---------------------------------------------------------------------------
(* SpecNoAddress: entities with and without an address, over devices that *)
(* report a raw state or none; scheduled polls beside two commands that    *)
(* end with a follow-up poll.                                              *)

InitNoAddress ==
    /\ self \in {NewEntity(T2262, ip) : ip \in {"", IP_ADDRESS}}
    /\ status = "AttributeError"
    /\ dev \in {[StartDevice(mode, state) EXCEPT ![AUTO_RETURN] = "True"] :
                   mode \in {"auto", None},
                   state \in {"Charging", "Running", None}}
    /\ vacState = EmptySnapshot
    /\ TaskInit

NextNoAddress ==
    NextOver({Command("async_return_to_base", None, None),
              Command("async_send_command", "autoReturn", None)})

SpecNoAddress == InitNoAddress /\ [][NextNoAddress]_vars

---------------------------------------------------------------------------
(* Properties *)

\* The writes a task's handler has made so far, as <<code, value>>.
RECURSIVE WritesIn(_)
WritesIn(l) ==
    IF l = <<>> THEN <<>>
    ELSE IF Head(l)[1] = "set"
         THEN << <<Head(l)[2], Head(l)[3]>> >> \o WritesIn(Tail(l))
         ELSE WritesIn(Tail(l))

\* The snapshot the last poll stored.
LastSnapshot == self.tuyastatus[1]

\* The lifecycle state the specification gives for snapshot s.
C1_Expected(s) ==
    IF s[STATE_CODE] = None
       \/ (s[ERROR_CODE] # None /\ s[ERROR_CODE] \notin {"0", "no_error"})
    THEN STATE_ERROR
    ELSE CASE s[STATE_CODE] \in {"Charging", "completed"} -> STATE_DOCKED
           [] s[STATE_CODE] = "Recharge" -> STATE_RETURNING
           [] s[STATE_CODE] \in {"Sleeping", "standby"} -> STATE_IDLE
           [] OTHER -> STATE_CLEANING

\* C1: after a poll the lifecycle state is ERROR exactly when the raw state
\* is absent or an error code is present and is neither 0 nor "no_error";
\* otherwise (the error code absent included) it follows the raw state.
C1_LifecycleFollowsSnapshot ==
    self.tuyastatus # <<>> => State(self) = C1_Expected(LastSnapshot)

\* C2: after a successful poll every semantic field whose raw code is
\* absent from the last snapshot is absent, whatever earlier polls stored.
C2_FieldsFromLastSnapshot ==
    (pc[Poller] = "done" /\ self.tuyastatus # <<>>) =>
        /\ self.battery_level = LastSnapshot[BATTERY_LEVEL]
        /\ self.mode = LastSnapshot[MODE]
        /\ (LastSnapshot[FAN_SPEED] = None => self.fan_speed = None)
        /\ self.cleaning_area = LastSnapshot[CLEANING_AREA]
        /\ self.cleaning_time = LastSnapshot[CLEANING_TIME]
        /\ self.auto_return = LastSnapshot[AUTO_RETURN]
        /\ self.do_not_disturb = LastSnapshot[DO_NOT_DISTURB]
        /\ self.boost_iq = LastSnapshot[BOOST_IQ]
        /\ (LastSnapshot[G_CONSUMABLES] = None /\ LastSnapshot[X_CONSUMABLES] = None
              => self.consumables = None)

C3_Corrupt == {BLOB_TRUNCATED, BLOB_NON_ASCII, BLOB_BAD_LITERAL, BLOB_NO_KEY}

\* C3: a poll of a snapshot with a truncated or corrupt consumables blob
\* returns normally, leaves the wear field absent and stores every other
\* field of the snapshot, boost-IQ included.
C3_CorruptBlobFailsClosed ==
    (/\ pc[Poller] # "idle"
     /\ self.tuyastatus # <<>>
     /\ (LastSnapshot[G_CONSUMABLES] \in C3_Corrupt
            \/ LastSnapshot[X_CONSUMABLES] \in C3_Corrupt)) =>
        /\ pc[Poller] = "done"
        /\ self.consumables = None
        /\ self.boost_iq = LastSnapshot[BOOST_IQ]
        /\ self.battery_level = LastSnapshot[BATTERY_LEVEL]
        /\ self.mode = LastSnapshot[MODE]

IsDnd(t) == cmd[t] = Command("async_send_command", "doNotDisturb", None)

\* C4: a doNotDisturb toggle makes exactly two writes, the schedule blob
\* (139) before the enable flag (107): ("MEQ4MDAwMDAw", false) when the flag
\* was on as the handler started, ("MTAwMDAwMDAw", true) when it was off.
C4_DndTwoWritesInOrder ==
    \A t \in CmdTasks :
        (IsDnd(t) /\ pc[t] # "idle") =>
            /\ WritesIn(log[t]) \o todo[t] =
                  IF Truthy(entry[t].do_not_disturb)
                  THEN << <<"139", "MEQ4MDAwMDAw">>, <<"107", "False">> >>
                  ELSE << <<"139", "MTAwMDAwMDAw">>, <<"107", "True">> >>
            /\ (pc[t] # "set" => todo[t] = <<>>)
            /\ pc[t] # "raised"

\* C4 witness: both toggles have run to their end, one from the flag on and
\* one from the flag off.
C4_Witness ==
    \E t, u \in CmdTasks :
        /\ IsDnd(t) /\ pc[t] = "done" /\ Truthy(entry[t].do_not_disturb)
        /\ IsDnd(u) /\ pc[u] = "done" /\ ~Truthy(entry[u].do_not_disturb)

\* C5: the two writes of a doNotDisturb toggle reach the device as one, so
\* no poll stores the schedule blob of one setting with the flag of the other.
C5_NoTornObservation ==
    self.tuyastatus # <<>> =>
        (LastSnapshot["139"] = DND_ON_BLOB <=> LastSnapshot[DO_NOT_DISTURB] = "True")

\* The mode the specification has Start write.
C6_Expected(mode, state) ==
    IF mode = "Nosweep" THEN "auto"
    ELSE IF mode = "room" /\ state = STATE_DOCKED THEN "auto"
    ELSE mode

\* C6: Start writes the current mode to code 5, except "auto" for mode
\* "Nosweep" and for mode "room" while the lifecycle state is DOCKED.
C6_StartWritesMode ==
    \A t \in CmdTasks :
        (cmd[t].name = "async_start" /\ pc[t] # "idle") =>
            WritesIn(log[t]) \o todo[t] =
                << <<"5", C6_Expected(entry[t].mode, entry[t].state)>> >>

\* C7: a command that has made its write and returned has polled the
\* device after the write.
C7_WriteThenPoll ==
    \A t \in CmdTasks :
        (pc[t] = "done" /\ WritesIn(log[t]) # <<>>) =>
            log[t][Len(log[t])][1] = "get"

\* The feature the specification ties each command to.
C8_Feature(c) ==
    CASE c.name = "async_locate" -> "LOCATE"
      [] c.name = "async_return_to_base" -> "RETURN_HOME"
      [] c.name = "async_start" -> "START"
      [] c.name = "async_pause" -> "PAUSE"
      [] c.name = "async_stop" -> "STOP"
      [] c.name = "async_clean_spot" -> "CLEAN_SPOT"
      [] c.name = "async_set_fan_speed" -> "FAN_SPEED"
      [] c.arg = "edgeClean" -> "EDGE"
      [] c.arg = "smallRoomClean" -> "SMALL_ROOM"
      [] c.arg = "autoReturn" -> "AUTO_RETURN"
      [] c.arg = "doNotDisturb" -> "DO_NOT_DISTURB"
      [] c.arg = "boostIQ" -> "BOOST_IQ"
      [] c.arg = "roomClean" -> "ROOM"
      [] OTHER -> "SEND_COMMAND"

\* C8: a command whose feature the profile lacks is rejected: the handler
\* raises and no write is made.
C8_UnsupportedRejected ==
    \A t \in CmdTasks :
        (pc[t] # "idle"
         /\ C8_Feature(cmd[t]) \notin self.supported_features \cup self.robovac_supported)
        => (pc[t] = "raised" /\ log[t] = <<>> /\ todo[t] = <<>>)

\* C9: the token SetFanSpeed(label) wrote to code 102, once a poll has read
\* it back, is shown as the label.
C9_FanSpeedRoundTrip ==
    \A t \in CmdTasks :
        (/\ cmd[t].name = "async_set_fan_speed"
         /\ WritesIn(log[t]) # <<>>
         /\ self.tuyastatus # <<>>
         /\ LastSnapshot[FAN_SPEED] = WritesIn(log[t])[1][2])
        => /\ WritesIn(log[t])[1][1] = "102"
           /\ self.fan_speed = cmd[t].arg

\* C9 witness: an aliased label has been written and read back by the
\* command's own poll.
C9_Witness ==
    \E t \in CmdTasks :
        /\ cmd[t] = Command("async_set_fan_speed", "Pure", None)
        /\ pc[t] = "done"
        /\ LastSnapshot[FAN_SPEED] = "Quiet"
        /\ self.fan_speed = "Pure"

\* model_code[0:5], written out.
C10_First5(m) == [i \in 1..(IF Len(m) < 5 THEN Len(m) ELSE 5) |-> m[i]]

C10_Profile(e) ==
    [fan_speed_list |-> e.fan_speed_list,
     robovac_supported |-> e.robovac_supported,
     supported_features |-> e.supported_features]

\* C10: the profile depends on the first five characters alone, the three
\* tables share no prefix, and a prefix of no table gets the minimal
\* profile: no features and the vocabulary ["Standard"].
C10_ResolveByPrefix ==
    /\ \A m \in ModelIds :
          C10_First5(m) = C10_First5(self.model_code)
              => ResolveProfile(m) = C10_Profile(self)
    /\ Range(C_SERIES) \cap Range(G_SERIES) = {}
    /\ Range(C_SERIES) \cap Range(X_SERIES) = {}
    /\ Range(G_SERIES) \cap Range(X_SERIES) = {}
    /\ C10_First5(self.model_code) \notin
            Range(C_SERIES) \cup Range(G_SERIES) \cup Range(X_SERIES)
          => C10_Profile(self) =
                [fan_speed_list |-> <<"Standard">>, robovac_supported |-> {},
                 supported_features |-> {}]

\* C10 witness: a polled entity whose identifier is longer than its prefix
\* and whose prefix is in the X-series table.
C10_Witness ==
    /\ Len(self.model_code) > 5
    /\ "BOOST_IQ" \in self.robovac_supported
    /\ pc[Poller] = "done"

IsToggle(t, name) == cmd[t] = Command("async_send_command", name, None)

\* The logical negation of a flag, an absent flag counting as false.
C11_Negation(flag) == IF flag = "True" THEN "False" ELSE "True"

\* The flag of the last poll: absent before the first poll.
C11_FlagOfLastPoll(code) ==
    IF self.tuyastatus = <<>> THEN None ELSE LastSnapshot[code]

\* C11: an autoReturn toggle makes exactly one write, to code 135, and a
\* boostIQ toggle exactly one, to code 118; the value is the negation of the
\* flag the last poll stored (true for an absent flag), which is the flag
\* the handler reads on entry.
C11_ToggleWritesNegation ==
    /\ self.auto_return = C11_FlagOfLastPoll(AUTO_RETURN)
    /\ self.boost_iq = C11_FlagOfLastPoll(BOOST_IQ)
    /\ \A t \in CmdTasks :
          /\ (IsToggle(t, "autoReturn") /\ pc[t] # "idle") =>
                /\ WritesIn(log[t]) \o todo[t] =
                      << <<"135", C11_Negation(entry[t].auto_return)>> >>
                /\ (pc[t] # "set" => todo[t] = <<>>)
                /\ pc[t] # "raised"
          /\ (IsToggle(t, "boostIQ") /\ pc[t] # "idle") =>
                /\ WritesIn(log[t]) \o todo[t] =
                      << <<"118", C11_Negation(entry[t].boost_iq)>> >>
                /\ (pc[t] # "set" => todo[t] = <<>>)
                /\ pc[t] # "raised"

\* C11 witness: a boostIQ toggle has run to its end from an absent flag and
\* an autoReturn toggle from a flag a poll stored as true.
C11_Witness ==
    \E t, u \in CmdTasks :
        /\ IsToggle(t, "boostIQ") /\ pc[t] = "done"
        /\ entry[t].boost_iq = None
        /\ WritesIn(log[t]) = << <<"118", "True">> >>
        /\ IsToggle(u, "autoReturn") /\ pc[u] = "done"
        /\ entry[u].auto_return = "True"
        /\ WritesIn(log[u]) = << <<"135", "False">> >>

\* The value of the one write an autoReturn handler has made or has to make.
C12_Value(t) == (WritesIn(log[t]) \o todo[t])[1][2]

C13_StartNeverWritesNone ==
    \A t \in CmdTasks :
        cmd[t].name = "async_start" =>
            \A i \in 1..Len(WritesIn(log[t])) :
                WritesIn(log[t])[i][1] = "5" => WritesIn(log[t])[i][2] # None

\* C14: while the address is empty no poll fetches from the transport and
\* every field stays as constructed, so the raw state stays absent and the
\* lifecycle state stays ERROR, whatever the device reports and however
\* many polls (scheduled, or following a command) have run.
C14_EmptyAddressPollsNothing ==
    self.ip_address = "" =>
        /\ \A t \in Tasks : \A i \in 1..Len(log[t]) : log[t][i][1] # "get"
        /\ vacState = EmptySnapshot
        /\ self = NewEntity(self.model_code, "")
        /\ self.tuya_state = None
        /\ State(self) = STATE_ERROR

\* C14 witness: with an empty address, a command has made its write and
\* returned from its follow-up poll, and a scheduled poll has returned, on
\* a device that reports itself docked and free of errors.
C14_Witness ==
    /\ self.ip_address = ""
    /\ \E t \in CmdTasks : pc[t] = "done" /\ WritesIn(log[t]) # <<>>
    /\ pc[Poller] = "done"
    /\ dev[STATE_CODE] = "Charging" /\ dev[ERROR_CODE] = "0"
    /\ State(self) = STATE_ERROR

===========================================================================
